---- MODULE Spec2Model ----
(***************************************************************************)
(* cosignerd: the accept loop of src/bin/cosignerd.rs (daemon_main).       *)
(*                                                                         *)
(* The daemon binds a TCP listener and treats inbound connections          *)
(* sequentially.  Each iteration of the loop                               *)
(*   1. takes a connection from listener.incoming()            (l.59-64)   *)
(*   2. calls KKTransport::accept(&listener, ..), which accepts a          *)
(*      connection from the listener itself and runs the Noise KK          *)
(*      handshake on it against the managers' keys             (l.66-76)   *)
(*   3. reads one message from the Noise stream                (l.78-84)   *)
(*   4. decodes it as a `Sign` message                         (l.90-97)   *)
(*   5. "TODO: process sign message"                           (l.100)     *)
(* and every `continue` / end of body drops the iteration's locals, which  *)
(* closes the sockets they own.                                            *)
(*                                                                         *)
(* sent, ledger and signer_calls observe what the daemon writes to the     *)
(* network, what it persists, and how often it signs.  daemon_main has no  *)
(* statement that does any of the three, so only ProcessSignMessage (the   *)
(* step at l.100) is given the chance to change them.                      *)
(*                                                                         *)
(* SpecArgs is main's first step, parse_args (l.6-18), on any command      *)
(* line; Spec starts once main has reached daemon_main.                    *)
(***************************************************************************)
EXTENDS Integers, Sequences, FiniteSets, TLC

\* ---------------------------------------------------------------- bounds
\* Number of inbound connections that arrive over the whole run.
MaxConns == 4
\* Longest command line given to the program (program name included).
MaxArgs == 3

\* ---------------------------------------------------------------- inputs
NoConn == 0
None == "none"

\* Noise static keys of the peers; cosignerd.managers holds the allowed ones.
managers_noise_pubkeys == {"manager"}

\* Spend transactions, and the unvault outpoints each one spends (the
\* inputs of the transaction): txA and txB both spend o1.
Txs == {"txA", "txB"}
OutPoints == {"o1", "o2"}
SpentOutpoints(tx) == IF tx = "txA" THEN {"o1", "o2"} ELSE {"o1"}

\* A decoded `Sign` message: the transaction and the outpoints it spends.
SignMsgs == {[tx |-> t, outs |-> SpentOutpoints(t)] : t \in Txs}

\* What a peer puts on its connection once the handshake is done: the JSON
\* of a Sign message, bytes that are no Sign message, a broken stream, or
\* nothing at all (the peer keeps the connection open and stays silent).
JsonSign(m) == [enc |-> "json_sign", tx |-> m.tx, outs |-> m.outs]
Garbage == [enc |-> "garbage"]
ReadError == [enc |-> "read_error"]
Stalled == [enc |-> "stalled"]
Payloads == {JsonSign(m) : m \in SignMsgs} \cup {Garbage, ReadError, Stalled}

\* A peer: its static key and what it will send.  A peer whose key is not
\* allowed never gets to send, so one stranger stands for all of them.
Peers == {[key |-> "manager", payload |-> p] : p \in Payloads}
           \cup {[key |-> "stranger", payload |-> Garbage]}

\* Words a command line is made of.
ArgWords == {"cosignerd", "--conf", "--verbose", "conf.toml"}
ArgLists == UNION {[1..n -> ArgWords] : n \in 0..MaxArgs}

\* Option<PathBuf>
NoPath == [some |-> FALSE]
SomePath(str) == [some |-> TRUE, path |-> str]

VARIABLES
    args,          \* env::args() as collected at l.105
    conf_file,     \* what parse_args returned (l.106)
    pc,            \* where main / daemon_main is
    peers,         \* peers[c]: the peer behind connection c (arrival order)
    listener,      \* connections queued on the listening socket, oldest first
    stream,        \* the TcpStream bound at l.61, or NoConn
    kk_stream,     \* the KKTransport bound at l.66, or NoConn
    buf,           \* the bytes bound at l.78, or None
    sign_msg,      \* the Sign bound at l.90, or None
    closed,        \* connections whose socket has been closed
    killed,        \* connections closed because the process died
    handshaken,    \* connections on which the Noise handshake was run
    reads,         \* connections read from, one entry per read() call
    decoded,       \* connections whose message decoded as a Sign
    decided,       \* <<connection, Sign>> handed to the processing step
    sent,          \* <<connection, response>> written to the network
    ledger,        \* persisted records [output_ref, digest]
    signer_calls   \* number of signatures computed

vars == <<args, conf_file, pc, peers, listener, stream, kk_stream, buf, sign_msg, closed, killed,
          handshaken, reads, decoded, decided, sent, ledger, signer_calls>>

startup == <<args, conf_file>>
locals == <<stream, kk_stream, buf, sign_msg>>
history == <<handshaken, reads, decoded, decided>>
effects == <<sent, ledger, signer_calls>>

Conns == 1..Len(peers)

\* Connections the process holds a socket for.
OpenConns == {stream, kk_stream} \ {NoConn}

Running == pc \in {"listening", "accepted", "authenticated", "read", "decoded"}

\* ------------------------------------------------------------ collaborators
\* Noise KK: the handshake completes only with a peer holding one of the
\* keys handed to KKTransport::accept.
HandshakeOk(key) == key \in managers_noise_pubkeys

\* serde_json::from_slice::<Sign>(&buf)
DecodeOk(bytes) == bytes.enc = "json_sign"
DecodeSign(bytes) == [tx |-> bytes.tx, outs |-> bytes.outs]

\* ------------------------------------------------------------------- Init
\* The state once main has parsed a bare command line and reached
\* daemon_main (l.104-137).
Init ==
    /\ args = <<"cosignerd">>
    /\ conf_file = NoPath
    /\ pc = "init"
    /\ peers = <<>>
    /\ listener = <<>>
    /\ stream = NoConn
    /\ kk_stream = NoConn
    /\ buf = None
    /\ sign_msg = None
    /\ closed = {}
    /\ killed = {}
    /\ handshaken = {}
    /\ reads = <<>>
    /\ decoded = {}
    /\ decided = <<>>
    /\ sent = <<>>
    /\ ledger = {}
    /\ signer_calls = 0

\* `continue` or the end of the loop body: the locals go out of scope, the
\* sockets they own are closed, and the loop is back at listener.incoming().
\* extra: a connection closed inside the callee that failed.
NextIteration(extra) ==
    /\ closed' = closed \cup OpenConns \cup extra
    /\ stream' = NoConn
    /\ kk_stream' = NoConn
    /\ buf' = None
    /\ sign_msg' = None
    /\ pc' = "listening"

\* l.49-53: bind the listener; a bind error ends the process.
Bind ==
    /\ pc = "init"
    /\ \/ pc' = "listening"
       \/ pc' = "exited"
    /\ UNCHANGED <<startup, peers, listener, locals, closed, killed, history, effects>>

\* A manager (or anyone else) connects to the listening socket.
Arrive ==
    /\ Running
    /\ Len(peers) < MaxConns
    /\ \E p \in Peers :
          /\ peers' = Append(peers, p)
          /\ listener' = Append(listener, Len(peers) + 1)
    /\ UNCHANGED <<startup, pc, locals, closed, killed, history, effects>>

\* l.59-62: incoming() yields the oldest queued connection.
IncomingOk ==
    /\ pc = "listening"
    /\ listener # <<>>
    /\ stream' = Head(listener)
    /\ listener' = Tail(listener)
    /\ pc' = "accepted"
    /\ UNCHANGED <<startup, peers, kk_stream, buf, sign_msg, closed, killed, history, effects>>

\* l.63: incoming() yields an error (the queued connection was aborted).
IncomingErr ==
    /\ pc = "listening"
    /\ listener # <<>>
    /\ listener' = Tail(listener)
    /\ NextIteration({Head(listener)})
    /\ UNCHANGED <<startup, peers, killed, history, effects>>

\* l.66-71: KKTransport::accept takes the next queued connection off the
\* listener and the handshake on it completes.  The call blocks while no
\* connection is queued.
KKAcceptOk ==
    /\ pc = "accepted"
    /\ listener # <<>>
    /\ HandshakeOk(peers[Head(listener)].key)
    /\ kk_stream' = Head(listener)
    /\ listener' = Tail(listener)
    /\ handshaken' = handshaken \cup {Head(listener)}
    /\ pc' = "authenticated"
    /\ UNCHANGED <<startup, peers, stream, buf, sign_msg, closed, killed, reads, decoded,
                   decided, effects>>

\* Faulty: the error is logged but the loop body goes on with the stream.
HandshakeFailed_FallThrough(c) ==
    /\ handshaken' = handshaken \cup {c}
    /\ kk_stream' = c
    /\ pc' = "authenticated"
    /\ UNCHANGED <<stream, buf, sign_msg, closed, reads, decoded, decided, effects>>

\* l.72-75: the handshake on the connection KKTransport::accept took fails.
HandshakeFailed(c) ==
    /\ handshaken' = handshaken \cup {c}
    /\ NextIteration({c})
    /\ UNCHANGED <<reads, decoded, decided, effects>>

KKAcceptErr ==
    /\ pc = "accepted"
    /\ listener # <<>>
    /\ ~HandshakeOk(peers[Head(listener)].key)
    /\ listener' = Tail(listener)
    /\ HandshakeFailed(Head(listener))
    /\ UNCHANGED <<startup, peers, killed>>

\* l.72-75: the accept inside KKTransport::accept fails (the queued
\* connection was aborted), so no handshake is run.
KKAcceptIoErr ==
    /\ pc = "accepted"
    /\ listener # <<>>
    /\ listener' = Tail(listener)
    /\ NextIteration({Head(listener)})
    /\ UNCHANGED <<startup, peers, killed, history, effects>>

\* l.78-79: one message is read from the Noise stream.  The call blocks
\* while the peer sends nothing.
ReadOk ==
    /\ pc = "authenticated"
    /\ peers[kk_stream].payload \notin {ReadError, Stalled}
    /\ buf' = peers[kk_stream].payload
    /\ reads' = Append(reads, kk_stream)
    /\ pc' = "read"
    /\ UNCHANGED <<startup, peers, listener, stream, kk_stream, sign_msg, closed, killed,
                   handshaken, decoded, decided, effects>>

\* Faulty: a read error ends the process.
ReadErr_Fatal ==
    /\ pc = "authenticated"
    /\ peers[kk_stream].payload = ReadError
    /\ reads' = Append(reads, kk_stream)
    /\ closed' = closed \cup OpenConns
    /\ stream' = NoConn
    /\ kk_stream' = NoConn
    /\ buf' = None
    /\ sign_msg' = None
    /\ pc' = "exited"
    /\ UNCHANGED <<startup, peers, listener, killed, handshaken, decoded, decided, effects>>

\* l.80-83: the read fails.
ReadErr ==
    /\ pc = "authenticated"
    /\ peers[kk_stream].payload = ReadError
    /\ reads' = Append(reads, kk_stream)
    /\ NextIteration({})
    /\ UNCHANGED <<startup, peers, listener, killed, handshaken, decoded, decided, effects>>

\* l.90-91: the bytes decode as a Sign message.
Decoded ==
    /\ pc = "read"
    /\ DecodeOk(buf)
    /\ sign_msg' = DecodeSign(buf)
    /\ decoded' = decoded \cup {kk_stream}
    /\ pc' = "decoded"
    /\ UNCHANGED <<startup, peers, listener, stream, kk_stream, buf, closed, killed,
                   handshaken, reads, decided, effects>>

\* Faulty: a protocol violation ends the process (the FIXME of l.92).
DecodeFailed_Fatal ==
    /\ closed' = closed \cup OpenConns
    /\ stream' = NoConn
    /\ kk_stream' = NoConn
    /\ buf' = None
    /\ sign_msg' = None
    /\ pc' = "exited"
    /\ UNCHANGED <<startup, peers, listener, killed, history, effects>>

\* l.93-96: the bytes do not decode: log and continue.
DecodeFailed ==
    /\ NextIteration({})
    /\ UNCHANGED <<startup, peers, listener, killed, history, effects>>

DecodeErr ==
    /\ pc = "read"
    /\ ~DecodeOk(buf)
    /\ DecodeFailed

\* What a processing step could write: the two responses of the wire
\* protocol and a ledger record.  daemon_main writes none of them.
Signature(msg) == [kind |-> "signature", tx |-> msg.tx, outs |-> msg.outs]
Rejection(reason) == [kind |-> "error", error |-> reason]
Record(o, tx) == [output_ref |-> o, digest |-> tx]

\* Faulty ways of filling in the processing step.
\* Reject only when every spent outpoint is bound to another transaction.
ProcessSignMessage_AllInsteadOfAny(conn, msg) ==
    IF msg.outs # {} /\ \A o \in msg.outs :
           \E r \in ledger : r.output_ref = o /\ r.digest # msg.tx
    THEN /\ sent' = Append(sent, <<conn, Rejection("conflict")>>)
         /\ UNCHANGED <<ledger, signer_calls>>
    ELSE /\ ledger' = ledger \cup {Record(o, msg.tx) : o \in msg.outs}
         /\ signer_calls' = signer_calls + 1
         /\ sent' = Append(sent, <<conn, Signature(msg)>>)

\* Rebind the spent outpoints to the latest transaction.
ProcessSignMessage_Overwrite(conn, msg) ==
    /\ ledger' = {r \in ledger : r.output_ref \notin msg.outs}
                    \cup {Record(o, msg.tx) : o \in msg.outs}
    /\ signer_calls' = signer_calls + 1
    /\ sent' = Append(sent, <<conn, Signature(msg)>>)

\* Bind the outpoints that are still free, then reject because of the others.
ProcessSignMessage_PartialCommit(conn, msg) ==
    LET free == {o \in msg.outs : ~\E r \in ledger : r.output_ref = o}
    IN  /\ ledger' = ledger \cup {Record(o, msg.tx) : o \in free}
        /\ IF free = msg.outs
           THEN /\ signer_calls' = signer_calls + 1
                /\ sent' = Append(sent, <<conn, Signature(msg)>>)
           ELSE /\ UNCHANGED signer_calls
                /\ sent' = Append(sent, <<conn, Rejection("conflict")>>)

\* Sign and answer, persist nothing.
ProcessSignMessage_SignOnly(conn, msg) ==
    /\ signer_calls' = signer_calls + 1
    /\ sent' = Append(sent, <<conn, Signature(msg)>>)
    /\ UNCHANGED ledger

\* l.98-100: the decoded message is traced; processing it is left to do.
ProcessSignMessage(conn, msg) ==
    UNCHANGED <<sent, ledger, signer_calls>>

\* Faulty: the connection is kept and read again after a request.
Process_KeepConnection ==
    /\ pc = "decoded"
    /\ decided' = Append(decided, <<kk_stream, sign_msg>>)
    /\ ProcessSignMessage(kk_stream, sign_msg)
    /\ buf' = None
    /\ sign_msg' = None
    /\ pc' = "authenticated"
    /\ UNCHANGED <<startup, peers, listener, stream, kk_stream, closed, killed,
                   handshaken, reads, decoded>>

\* l.98-101: the rest of the loop body after a successful decode.
Process ==
    /\ pc = "decoded"
    /\ decided' = Append(decided, <<kk_stream, sign_msg>>)
    /\ ProcessSignMessage(kk_stream, sign_msg)
    /\ NextIteration({})
    /\ UNCHANGED <<startup, peers, listener, killed, handshaken, reads, decoded>>

\* The process dies: every socket it holds, queued ones included, is closed
\* and its memory is gone; what was persisted or sent stays.
Crash ==
    /\ Running
    /\ pc' = "down"
    /\ killed' = killed \cup OpenConns \cup {listener[i] : i \in DOMAIN listener}
    /\ closed' = closed \cup OpenConns \cup {listener[i] : i \in DOMAIN listener}
    /\ listener' = <<>>
    /\ stream' = NoConn
    /\ kk_stream' = NoConn
    /\ buf' = None
    /\ sign_msg' = None
    /\ UNCHANGED <<startup, peers, history, effects>>

\* l.104-137: the daemon is started again.
Restart ==
    /\ pc \in {"down", "exited"}
    /\ pc' = "init"
    /\ UNCHANGED <<startup, peers, listener, locals, closed, killed, history, effects>>

Next ==
    \/ Bind
    \/ Arrive
    \/ IncomingOk
    \/ IncomingErr
    \/ KKAcceptOk
    \/ KKAcceptErr
    \/ KKAcceptIoErr
    \/ ReadOk
    \/ ReadErr
    \/ Decoded
    \/ DecodeErr
    \/ Process
    \/ Crash
    \/ Restart

Spec == Init /\ [][Next]_vars

\* ----------------------------------------------------------- parse_args
\* l.6-18.  args[2] of the source is args[3] here (sequences start at 1).
parse_args(a) ==
    IF Len(a) = 1 THEN [exit |-> FALSE, ret |-> NoPath]
    ELSE IF Len(a) # 3 THEN [exit |-> TRUE, status |-> 1]
    ELSE [exit |-> FALSE, ret |-> SomePath(a[3])]

\* l.104-106: main is entered with any command line.
InitArgs ==
    /\ args \in ArgLists
    /\ conf_file = NoPath
    /\ pc = "start"
    /\ peers = <<>>
    /\ listener = <<>>
    /\ stream = NoConn
    /\ kk_stream = NoConn
    /\ buf = None
    /\ sign_msg = None
    /\ closed = {}
    /\ killed = {}
    /\ handshaken = {}
    /\ reads = <<>>
    /\ decoded = {}
    /\ decided = <<>>
    /\ sent = <<>>
    /\ ledger = {}
    /\ signer_calls = 0

\* l.105-106: let conf_file = parse_args(args), or the process exits.
ParseArgs ==
    /\ pc = "start"
    /\ IF parse_args(args).exit
       THEN /\ pc' = "exit1"
            /\ UNCHANGED conf_file
       ELSE /\ pc' = "parsed"
            /\ conf_file' = parse_args(args).ret
    /\ UNCHANGED <<args, peers, listener, locals, closed, killed, history, effects>>

NextArgs == ParseArgs

SpecArgs == InitArgs /\ [][NextArgs]_vars

\* A step of daemon_main itself (not of its peers, not the process dying).
DaemonStep ==
    \/ IncomingOk
    \/ IncomingErr
    \/ KKAcceptOk
    \/ KKAcceptErr
    \/ KKAcceptIoErr
    \/ ReadOk
    \/ ReadErr
    \/ Decoded
    \/ DecodeErr
    \/ Process

\* ================================================================ claims
SignaturesSent == {sent[i][2] : i \in {j \in DOMAIN sent : sent[j][2].kind = "signature"}}
ResponsesOn(c) == {i \in DOMAIN sent : sent[i][1] = c}
RecordsOf(o) == {r \in ledger : r.output_ref = o}
HandledMsgs == {decided[i][2] : i \in DOMAIN decided}
\* Two handled requests spend a common outpoint with different transactions.
ConflictingHandled ==
    \E m, n \in HandledMsgs : m.tx # n.tx /\ m.outs \cap n.outs # {}

C7_OneResponsePerRequest ==
    \A c \in decoded :
        (c \in closed /\ c \notin killed) => Cardinality(ResponsesOn(c)) = 1

\* C8: at most one inbound connection is accepted and not yet closed.
C8_OneConnectionAtATime ==
    Cardinality(OpenConns) <= 1

\* C9: reading, decoding and deciding happen only on connections whose
\* handshake succeeded with a manager key; a failed handshake closes the
\* connection and puts the loop back at listening, with nothing read,
\* nothing sent and the store untouched.
C9_OnlyAuthenticatedAreRead ==
    /\ [](/\ \A i \in DOMAIN reads :
               /\ reads[i] \in handshaken
               /\ peers[reads[i]].key \in managers_noise_pubkeys
          /\ \A c \in decoded \cup {decided[i][1] : i \in DOMAIN decided} :
               /\ c \in handshaken
               /\ peers[c].key \in managers_noise_pubkeys
          /\ \A c \in handshaken :
               peers[c].key \notin managers_noise_pubkeys =>
                 /\ c \in closed
                 /\ c \notin OpenConns
                 /\ \A i \in DOMAIN reads : reads[i] # c
                 /\ ResponsesOn(c) = {})
    /\ [][\A c \in handshaken' \ handshaken :
            peers[c].key \notin managers_noise_pubkeys =>
              /\ pc' = "listening"
              /\ OpenConns' = {}
              /\ UNCHANGED <<reads, decoded, decided, sent, ledger, signer_calls>>]_vars

\* C9 witness: a stranger's handshake has failed, a manager's message has been
\* read and decoded, and the loop is listening again.
C9_Witness ==
    /\ \E c \in handshaken : peers[c].key \notin managers_noise_pubkeys
    /\ decoded # {}
    /\ pc = "listening"

WaitingOnStalledPeer ==
    /\ pc = "authenticated"
    /\ peers[kk_stream].payload = Stalled

C11_StalledPeerTimesOut ==
    WaitingOnStalledPeer => ENABLED DaemonStep

\* C14: a transport fault (error accepting, failed handshake, read error)
\* closes the iteration's connections, leaves sent and the store as they
\* were, and puts the loop back at listener.incoming(); the daemon does not
\* exit.
TransportFaultStep ==
    /\ pc \in {"listening", "accepted", "authenticated"}
    /\ closed' # closed
    /\ pc' # "down"

C14_TransportFaultsAreNotFatal ==
    [][TransportFaultStep =>
         /\ pc' = "listening"
         /\ OpenConns \subseteq closed'
         /\ OpenConns' = {}
         /\ UNCHANGED <<decoded, decided, sent, ledger, signer_calls>>]_vars

\* C14 witness: a read failed on one connection and a later connection has
\* been read and decoded.
C14_Witness ==
    \E i, j \in DOMAIN reads :
        /\ i < j
        /\ peers[reads[i]].payload = ReadError
        /\ reads[i] \in closed \ killed
        /\ reads[j] \in decoded

\* C16: the handshake and the read are done on the connection that
\* listener.incoming() yielded for this iteration.
C16_HandshakeOnAcceptedConnection ==
    kk_stream # NoConn => kk_stream = stream

\* C17: at most one message is read and at most one request decided on a
\* connection, the request decided on a connection is the one read on it,
\* and the connection is closed once its request has been handled.
C17_OneRequestPerConnection ==
    \A c \in Conns :
        /\ Cardinality({i \in DOMAIN reads : reads[i] = c}) <= 1
        /\ Cardinality({i \in DOMAIN decided : decided[i][1] = c}) <= 1
        /\ \A i \in DOMAIN decided :
              decided[i][1] = c =>
                 /\ c \in closed
                 /\ c \notin OpenConns
                 /\ \E k \in DOMAIN reads : reads[k] = c
                 /\ DecodeOk(peers[c].payload)
                 /\ decided[i][2] = DecodeSign(peers[c].payload)

\* C17 witness: two requests have been handled, each on its own connection,
\* and the loop is listening again.
C17_Witness ==
    /\ Len(decided) = 2
    /\ decided[1][1] # decided[2][1]
    /\ pc = "listening"

\* C19: parse_args returns no path for the program name alone, the path for
\* <program> --conf <path>, and exits with status 1 for every other list.
C19_OnlyConfIsSupported ==
    pc # "start" =>
        IF Len(args) = 1
        THEN pc = "parsed" /\ conf_file = NoPath
        ELSE IF Len(args) = 3 /\ args[2] = "--conf"
        THEN pc = "parsed" /\ conf_file = SomePath(args[3])
        ELSE pc = "exit1"

====
